---------------------------- MODULE Spec2Model ----------------------------
(***************************************************************************)
(* Terrain mesh construction pipeline of Mappeoppgave-VSIM-VS/Source.cpp:  *)
(* loadTerrainData, normalizePoints, triangulateSimplified,                *)
(* calculateNormals, the part of main that composes them, and renderLoop   *)
(* with processInput and the GLFW callbacks that run inside it.            *)
(*                                                                         *)
(* Numbers.  The program computes in C++ float.  A float is modelled as an *)
(* integer count of the quantum 2^-FracBits, restricted to the values that *)
(* have at most MantBits significant bits (a binary floating-point format  *)
(* with a reduced mantissa and round-to-nearest-even, no overflow to       *)
(* infinity: the inputs are bounded far below the largest value).          *)
(* Additions, subtractions and divisions of normalizePoints round as the   *)
(* float operations do.  The geometric predicates (edge lengths, cross     *)
(* products) are evaluated exactly on these values.  A double (the cursor  *)
(* position handed to mouseCallback) is any integer count of quanta; its   *)
(* conversion to float rounds.                                             *)
(***************************************************************************)
EXTENDS Integers, Sequences, FiniteSets

\* Significant bits of the modelled float format.
MantBits == 4

\* The quantum of the modelled float format is 2^-FracBits.
FracBits == 7

\* Largest number of records in the input feed.
MaxSamples == 4

\* Largest number of points handed to a stage called on its own.
MaxPoints == 4

\* 1.0f in quanta.
One == 2 ^ FracBits

(***************************************************************************)
(* Float arithmetic                                                        *)
(***************************************************************************)
Abs(a) == IF a < 0 THEN -a ELSE a

RECURSIVE BitLen(_)
\* Number of bits of the natural number q (0 for 0).
BitLen(q) == IF q = 0 THEN 0 ELSE 1 + BitLen(q \div 2)

\* Spacing of the floats in the binade of the natural number q (in quanta).
Ulp(q) == IF BitLen(q) > MantBits THEN 2 ^ (BitLen(q) - MantBits) ELSE 1

\* The float nearest to the rational n/d quanta (d > 0), ties to even.
RoundQ(n, d) ==
    LET a  == Abs(n)
        q  == a \div d
        u  == Ulp(q)
        lo == (q \div u) * u
        r2 == 2 * (a - lo * d)
        m  == IF r2 < u * d THEN lo
              ELSE IF r2 > u * d THEN lo + u
              ELSE IF (lo \div u) % 2 = 0 THEN lo ELSE lo + u
    IN  IF n < 0 THEN -m ELSE m

\* Whether the integer a (in quanta) is a value of the float format.
IsFloat(a) == RoundQ(a, 1) = a

FAdd(a, b) == RoundQ(a + b, 1)

FSub(a, b) == RoundQ(a - b, 1)

\* a / b for b # 0.
FDiv(a, b) == IF b < 0 THEN RoundQ(-(a * One), -b) ELSE RoundQ(a * One, b)

\* The float literal with the decimal value num/den.
FLit(num, den) == RoundQ(num * One, den)

Max2(a, b) == IF a > b THEN a ELSE b

\* std::max({a, b, c})
Max3(a, b, c) == Max2(Max2(a, b), c)

(***************************************************************************)
(* Data: a Point is <<x, y, z>>; a Vertex is [position, normal].           *)
(***************************************************************************)
SeqMin(s, k) == CHOOSE m \in {s[i][k] : i \in DOMAIN s} :
                    \A i \in DOMAIN s : m <= s[i][k]

SeqMax(s, k) == CHOOSE m \in {s[i][k] : i \in DOMAIN s} :
                    \A i \in DOMAIN s : m >= s[i][k]

\* center = (min + max) / 2.0f on axis k.
Center(pts, k) == FDiv(FAdd(SeqMin(pts, k), SeqMax(pts, k)), 2 * One)

\* max - min on axis k.
Extent(pts, k) == FSub(SeqMax(pts, k), SeqMin(pts, k))

\* scale = std::max({extents}) / 2.0f; if (scale == 0.0f) scale = 1.0f.
Scale(pts) ==
    LET s == FDiv(Max3(Extent(pts, 1), Extent(pts, 2), Extent(pts, 3)), 2 * One)
    IN  IF s = 0 THEN One ELSE s

\* p.axis = (p.axis - center.axis) / scale
NormalizeCoord(v, c, s) == FDiv(FSub(v, c), s)

\* The point sequence normalizePoints leaves behind.
NormalizedPoints(pts) ==
    IF pts = <<>> THEN pts
    ELSE [i \in DOMAIN pts |->
            <<NormalizeCoord(pts[i][1], Center(pts, 1), Scale(pts)),
              NormalizeCoord(pts[i][2], Center(pts, 2), Scale(pts)),
              NormalizeCoord(pts[i][3], Center(pts, 3), Scale(pts))>>]

(***************************************************************************)
(* triangulateSimplified                                                   *)
(***************************************************************************)
\* glm::vec3(0.0f): the empty sum of unit vectors (see the normals below).
ZeroVec == [kind |-> "sum", terms |-> <<>>]

\* Mutant: the size check lets 2 points through.
InsufficientPointsBelowTwo(n) == n < 2

\* points.size() < 3
InsufficientPoints(n) == n < 3

\* Mutant: the vertices are taken from the points in reverse order.
BuildVerticesReversed(pts) ==
    [i \in DOMAIN pts |->
        [position |-> pts[Len(pts) + 1 - i], normal |-> ZeroVec]]

\* vertices.resize(points.size()); position = point i, normal = vec3(0).
BuildVertices(pts) ==
    [i \in DOMAIN pts |-> [position |-> pts[i], normal |-> ZeroVec]]

\* The comparator of std::sort: x ascending, then z ascending.
PointLess(a, b) == (a[1] < b[1]) \/ (a[1] = b[1] /\ a[3] < b[3])

RECURSIVE InsertSorted(_, _, _)
\* The index sequence perm (sorted by PointLess over pts) with index i added.
InsertSorted(perm, i, pts) ==
    IF perm = <<>> THEN <<i>>
    ELSE IF PointLess(pts[i], pts[Head(perm)]) THEN <<i>> \o perm
    ELSE <<Head(perm)>> \o InsertSorted(Tail(perm), i, pts)

RECURSIVE SortPerm(_, _)
\* The positions 1..n of pts in sorted order.
SortPerm(pts, n) ==
    IF n = 0 THEN <<>> ELSE InsertSorted(SortPerm(pts, n - 1), n, pts)

\* sortedPoints: the sorted copy of the points.
SortedPoints(pts) ==
    LET perm == SortPerm(pts, Len(pts)) IN [i \in DOMAIN pts |-> pts[perm[i]]]

RECURSIVE CandidateLoopOffByOne(_, _)
\* Mutant: the candidate loop runs to size() - 1.
CandidateLoopOffByOne(sortedPoints, i) ==
    IF i < Len(sortedPoints) - 1
    THEN <<i, i + 1, i + 2>> \o CandidateLoopOffByOne(sortedPoints, i + 1)
    ELSE <<>>

RECURSIVE CandidateLoop(_, _)
\* for (i = i0; i < sortedPoints.size() - 2; ++i) push i, i + 1, i + 2.
\* Only the size of sortedPoints is read; p0, p1, p2 are never used.
CandidateLoop(sortedPoints, i) ==
    IF i < Len(sortedPoints) - 2
    THEN <<i, i + 1, i + 2>> \o CandidateLoop(sortedPoints, i + 1)
    ELSE <<>>

\* Mutant: the candidate loop emits the original positions of the sorted
\* points i, i + 1, i + 2.
CandidateIndicesOfSorted(pts) ==
    LET perm == SortPerm(pts, Len(pts))
    IN  [k \in 1 .. 3 * (Len(pts) - 2) |->
            perm[((k - 1) \div 3) + ((k - 1) % 3) + 1] - 1]

\* The index sequence after the candidate loop (indices are 0-based values).
CandidateIndices(pts) == CandidateLoop(SortedPoints(pts), 0)

\* float maxEdgeLength = 0.15f
maxEdgeLength == FLit(15, 100)

\* Square of glm::distance(a, b), exact, in squared quanta.
Distance2(a, b) ==
    (a[1] - b[1]) * (a[1] - b[1]) + (a[2] - b[2]) * (a[2] - b[2])
        + (a[3] - b[3]) * (a[3] - b[3])

\* glm::distance(a, b) < t for t >= 0, decided on the squares.
DistanceLess(a, b, t) == Distance2(a, b) < t * t

\* Mutant: the filter keeps an edge equal to the threshold.
KeepTriangleInclusive(v0, v1, v2) ==
    /\ Distance2(v0, v1) <= maxEdgeLength * maxEdgeLength
    /\ Distance2(v1, v2) <= maxEdgeLength * maxEdgeLength
    /\ Distance2(v2, v0) <= maxEdgeLength * maxEdgeLength

\* d01 < maxEdgeLength && d12 < maxEdgeLength && d20 < maxEdgeLength
KeepTriangle(v0, v1, v2) ==
    /\ DistanceLess(v0, v1, maxEdgeLength)
    /\ DistanceLess(v1, v2, maxEdgeLength)
    /\ DistanceLess(v2, v0, maxEdgeLength)

RECURSIVE FilterLoop(_, _, _)
\* for (i = i0; i < indices.size(); i += 3): filteredIndices (i is 1-based here).
FilterLoop(verts, idx, i) ==
    IF i > Len(idx) THEN <<>>
    ELSE (IF KeepTriangle(verts[idx[i] + 1].position,
                          verts[idx[i + 1] + 1].position,
                          verts[idx[i + 2] + 1].position)
          THEN <<idx[i], idx[i + 1], idx[i + 2]>>
          ELSE <<>>) \o FilterLoop(verts, idx, i + 3)

RECURSIVE RemovedLoop(_, _, _)
\* The "Removed triangle" lines the filter loop prints, as index triples.
RemovedLoop(verts, idx, i) ==
    IF i > Len(idx) THEN <<>>
    ELSE (IF KeepTriangle(verts[idx[i] + 1].position,
                          verts[idx[i + 1] + 1].position,
                          verts[idx[i + 2] + 1].position)
          THEN <<>>
          ELSE <<<<idx[i], idx[i + 1], idx[i + 2]>>>>)
         \o RemovedLoop(verts, idx, i + 3)

(***************************************************************************)
(* calculateNormals                                                        *)
(*                                                                         *)
(* A normal is kept in exact form.  kind "sum": the sum of the unit        *)
(* vectors d/|d| for the integer directions d in terms (the zero vector is *)
(* the empty sum, a face normal a sum of one term); kind "unit": the unit  *)
(* vector along that (non-zero) sum; kind "nan": NaN in every component,   *)
(* which is what glm::normalize returns for the zero vector                *)
(* (v * inversesqrt(dot(v, v)) = 0 * inf) and for a NaN vector.            *)
(***************************************************************************)
NaNVec == [kind |-> "nan", terms |-> <<>>]

VSub(a, b) == <<a[1] - b[1], a[2] - b[2], a[3] - b[3]>>

\* glm::cross(a, b)
Cross(a, b) ==
    <<a[2] * b[3] - a[3] * b[2],
      a[3] * b[1] - a[1] * b[3],
      a[1] * b[2] - a[2] * b[1]>>

RECURSIVE Gcd(_, _)
Gcd(a, b) == IF b = 0 THEN a ELSE Gcd(b, a % b)

\* The integer vector v # 0 divided by the gcd of its components.
Primitive(v) ==
    LET g == Gcd(Gcd(Abs(v[1]), Abs(v[2])), Abs(v[3]))
    IN  <<v[1] \div g, v[2] \div g, v[3] \div g>>

\* glm::normalize of an integer vector.
NormalizeVec(v) ==
    IF v = <<0, 0, 0>> THEN NaNVec
    ELSE [kind |-> "sum", terms |-> <<Primitive(v)>>]

\* The largest k with k * k dividing n (n > 0).
SquarePart(n) ==
    LET cand == {k \in 1 .. 2 ^ ((BitLen(n) + 1) \div 2) : n % (k * k) = 0}
    IN  CHOOSE k \in cand : \A j \in cand : j <= k

Norm2(d) == d[1] * d[1] + d[2] * d[2] + d[3] * d[3]

\* |d| = SquarePart(Norm2(d)) * sqrt(SquareFree(d)).
SquareFree(d) == Norm2(d) \div (SquarePart(Norm2(d)) * SquarePart(Norm2(d)))

RECURSIVE ProdOthers(_, _, _)
\* Product of SquarePart(Norm2(terms[j])) over j # i of the class s.
ProdOthers(terms, i, s) ==
    IF terms = <<>> THEN 1
    ELSE (IF i # 1 /\ SquareFree(Head(terms)) = s
          THEN SquarePart(Norm2(Head(terms))) ELSE 1)
         * ProdOthers(Tail(terms), i - 1, s)

RECURSIVE ClassSum(_, _, _, _)
\* Component k of the sum over the terms i of class s of
\* terms[i] * ProdOthers(terms, i, s), summed from term i on.
ClassSum(terms, i, s, k) ==
    IF i > Len(terms) THEN 0
    ELSE (IF SquareFree(terms[i]) = s
          THEN terms[i][k] * ProdOthers(terms, i, s) ELSE 0)
         + ClassSum(terms, i + 1, s, k)

\* Whether the sum of the unit vectors d/|d|, d in terms, is the zero vector:
\* square roots of distinct square-free numbers are independent over the
\* rationals, so every class of terms must cancel on its own.
SumIsZero(terms) ==
    \A i \in DOMAIN terms : \A k \in 1 .. 3 :
        ClassSum(terms, 1, SquareFree(terms[i]), k) = 0

\* a += b on normals.
VAdd(a, b) ==
    IF a.kind = "nan" \/ b.kind = "nan" THEN NaNVec
    ELSE [kind |-> "sum", terms |-> a.terms \o b.terms]

\* glm::normalize of an accumulated normal.
NormalizeNormal(n) ==
    IF n.kind = "nan" \/ SumIsZero(n.terms) THEN NaNVec
    ELSE [kind |-> "unit", terms |-> n.terms]

\* normalize(cross(v1 - v0, v2 - v0))
FaceNormal(v0, v1, v2) == NormalizeVec(Cross(VSub(v1, v0), VSub(v2, v0)))

\* for (auto& vertex : vertices) vertex.normal = glm::vec3(0.0f)
ResetNormals(verts) ==
    [i \in DOMAIN verts |-> [verts[i] EXCEPT !.normal = ZeroVec]]

\* vertices[k].normal += n  (k is a 0-based index value)
AddNormal(verts, k, n) ==
    [verts EXCEPT ![k + 1].normal = VAdd(verts[k + 1].normal, n)]

RECURSIVE AccumulateLoop(_, _, _)
\* for (i = i0; i < indices.size(); i += 3): the accumulation (i is 1-based).
AccumulateLoop(verts, idx, i) ==
    IF i > Len(idx) THEN verts
    ELSE LET n == FaceNormal(verts[idx[i] + 1].position,
                             verts[idx[i + 1] + 1].position,
                             verts[idx[i + 2] + 1].position)
         IN  AccumulateLoop(
                 AddNormal(AddNormal(AddNormal(verts, idx[i], n), idx[i + 1], n),
                           idx[i + 2], n),
                 idx, i + 3)

\* for (auto& vertex : vertices) vertex.normal = glm::normalize(vertex.normal)
NormalizeAll(verts) ==
    [i \in DOMAIN verts |->
        [verts[i] EXCEPT !.normal = NormalizeNormal(verts[i].normal)]]

\* Mutant: calculateNormals drops the last vertex.
NormalsOfDroppingVertex(verts, idx) ==
    [i \in 1 .. Len(verts) - 1 |->
        [position |-> verts[i].position, normal |-> NaNVec]]

\* The vertex sequence calculateNormals leaves behind.
NormalsOf(verts, idx) == NormalizeAll(AccumulateLoop(ResetNormals(verts), idx, 1))

\* Magnitude of a normal: 1 for a unit vector, 0 for the zero vector.
IsUnitLength(n) == n.kind = "unit" \/ (n.kind = "sum" /\ Len(n.terms) = 1)

IsZeroVector(n) == n.kind = "sum" /\ SumIsZero(n.terms)

IsNaN(n) == n.kind = "nan"

(***************************************************************************)
(* State                                                                   *)
(***************************************************************************)
VARIABLES
    pc,        \* position in main
    file,      \* "Elevation Data.txt": [open, header, records]
    points,    \* main's points
    vertices,  \* main's vertices
    indices,   \* main's indices (0-based index values)
    cerr,      \* lines written to std::cerr
    cout,      \* lines written to std::cout
    calls,     \* functions entered from main, in order
    finished,  \* functions returned to main, in order
    gpu,       \* the mesh renderLoop copied to the vertex and element buffers
    exitCode,  \* main's return value, "none" while it runs
    normalWrites,  \* per vertex: the functions that assigned its normal, in order
    cameraPos,     \* the displacements added to the initial camera position
    cameraFront,   \* what cameraFront was last computed from
    yaw,           \* degrees, a float
    pitch,         \* degrees, a float
    lastX,         \* mouseCallback's static lastX, a float
    lastY,         \* mouseCallback's static lastY, a float
    firstMouse,
    keys,          \* the indices k with keys[k] == true
    roll,          \* degrees, a float
    isRMBPressed,
    shouldClose,   \* glfwWindowShouldClose(window)
    cursorEvents,  \* cursor-move events delivered so far
    pressedLast,   \* the key codes whose latest PRESS-or-RELEASE event was a PRESS
    unhandled      \* kinds of events that found no callback registered

\* The camera and input globals, the window and the event history.
inputVars == <<cameraPos, cameraFront, yaw, pitch, lastX, lastY, firstMouse,
               keys, roll, isRMBPressed, shouldClose, cursorEvents,
               pressedLast, unhandled>>

vars == <<pc, file, points, vertices, indices, cerr, cout, calls, finished,
          gpu, exitCode, normalWrites, inputVars>>

\* Sequences over S of length at most n.
SeqUpTo(S, n) == UNION {[1 .. k -> S] : k \in 0 .. n}

\* A whole number of units as a float, in quanta.
Units(k) == k * One

\* The points of S whose coordinates are values of the float format.
FloatPoints(S) == {p \in S : \A k \in 1 .. 3 : IsFloat(p[k])}

\* Records the input feed may hold (raw samples, in source units).
SampleSet ==
    FloatPoints(
        {<<Units(0), Units(0), Units(0)>>, <<Units(1), Units(0), Units(0)>>,
         <<Units(0), Units(0), Units(1)>>, <<Units(9), Units(0), Units(0)>>,
         <<Units(16), Units(0), Units(0)>>, <<Units(32), Units(1), Units(0)>>})

\* Half the edge threshold: two such steps at a right angle stay below it.
HalfEdge == maxEdgeLength \div 2

\* Points handed to triangulateSimplified when it is called on its own
\* (already normalized, in quanta): a grid around the edge threshold.
MeshPointSet ==
    FloatPoints(
        {<<x, 0, z>> : x \in {0, HalfEdge, maxEdgeLength}, z \in {0, HalfEdge}}
            \cup {<<0, HalfEdge, 0>>, <<HalfEdge, HalfEdge, HalfEdge>>})

\* Mutant: main calls calculateNormals before triangulateSimplified.
MainNextNormalsFirst(l) ==
    CASE l = "load"        -> "checkEmpty"
      [] l = "checkEmpty"  -> "normalize"
      [] l = "normalize"   -> "normals"
      [] l = "normals"     -> "triangulate"
      [] l = "triangulate" -> "shader"
      [] l = "shader"      -> "render"
      [] l = "render"      -> "terminate"

\* The label main continues at after the statement at label l.
MainNext(l) ==
    CASE l = "load"        -> "checkEmpty"
      [] l = "checkEmpty"  -> "normalize"
      [] l = "normalize"   -> "triangulate"
      [] l = "triangulate" -> "normals"
      [] l = "normals"     -> "shader"
      [] l = "shader"      -> "render"
      [] l = "render"      -> "terminate"

\* Mutant: the loader reads on although the file did not open.
LoadedPointsIgnoringOpen(f) == IF ~f.header THEN <<>> ELSE f.records

\* What loadTerrainData returns: nothing when the file does not open; nothing
\* when the leading count does not parse (the stream stays failed); else
\* every record.
LoadedPoints(f) ==
    IF ~f.open THEN <<>>
    ELSE IF ~f.header THEN <<>>
    ELSE f.records

\* Mutant: main does not stop on an empty point set.
NoTerrainDataIgnored(pts) == FALSE

\* points.empty() in main
NoTerrainData(pts) == pts = <<>>

(***************************************************************************)
(* calculateNormals and triangulateSimplified as writers of Vertex::normal *)
(***************************************************************************)
\* Line 225 assigns the normal of every vertex once.
BuildWrites(pts) == [i \in DOMAIN pts |-> <<"triangulateSimplified">>]

\* How often the 0-based index value v occurs in idx.
Occurrences(idx, v) == Cardinality({k \in DOMAIN idx : idx[k] = v})

\* calculateNormals assigns the normal of vertex i in the reset loop (line
\* 278), once per triangle corner that refers to it (lines 290-292) and in
\* the final loop (line 296).
NormalsWrites(w, idx) ==
    [i \in DOMAIN w |->
        w[i] \o [k \in 1 .. 2 + Occurrences(idx, i - 1) |-> "calculateNormals"]]

(***************************************************************************)
(* Camera and input globals, the GLFW callbacks, processInput              *)
(***************************************************************************)
\* bool keys[1024]
KeyTableSize == 1024

GLFW_KEY_W == 87

GLFW_KEY_S == 83

GLFW_KEY_A == 65

GLFW_KEY_D == 68

\* Largest number of cursor-move events in a run.
MaxCursorEvents == 2

\* Largest number of displacements processInput adds to the camera position.
MaxMoves == 1

\* Conversion of a double to float.
ToFloat(x) == RoundQ(x, 1)

FMul(a, b) == RoundQ(a * b, One)

\* The key codes the window system sends: GLFW_KEY_UNKNOWN (-1), W, the last
\* index of the table and the first one past it.
KeyCodes == {-1, GLFW_KEY_W, KeyTableSize - 1, KeyTableSize}

KeyActions == {"PRESS", "RELEASE", "REPEAT"}

MouseButtons == {"LEFT", "RIGHT"}

\* Cursor positions the window system reports (doubles, in quanta).
CursorPositions ==
    {<<Units(0), Units(0)>>, <<Units(17), Units(17)>>, <<Units(0), Units(1024)>>}

\* Mutant: main also registers mouseButtonCallback.
RegisteredCallbacksWithButton == {"cursorPos", "key", "mouseButton"}

\* The callbacks main registers: glfwSetCursorPosCallback, glfwSetKeyCallback.
RegisteredCallbacks == {"cursorPos", "key"}

\* Mutant: a REPEAT counts as a PRESS.
KeysAfterRepeatPresses(ks, key, action) ==
    IF key >= 0 /\ key < KeyTableSize
    THEN IF action = "RELEASE" THEN ks \ {key} ELSE ks \cup {key}
    ELSE ks

\* The keys table after keyCallback(window, key, scancode, action, mods).
KeysAfter(ks, key, action) ==
    IF key >= 0 /\ key < KeyTableSize
    THEN IF action = "PRESS" THEN ks \cup {key}
         ELSE IF action = "RELEASE" THEN ks \ {key}
         ELSE ks
    ELSE ks

\* isRMBPressed after mouseButtonCallback(window, button, action, mods).
RMBAfter(rmb, button, action) ==
    IF button = "RIGHT"
    THEN IF action = "PRESS" THEN TRUE
         ELSE IF action = "RELEASE" THEN FALSE
         ELSE rmb
    ELSE rmb

\* float sensitivity = 0.1f
sensitivity == FLit(1, 10)

\* 89.0f
PitchLimit == FLit(89, 1)

\* if (pitch > 89.0f) pitch = 89.0f; if (pitch < -89.0f) pitch = -89.0f;
ClampPitch(p) ==
    LET q == IF p > PitchLimit THEN PitchLimit ELSE p
    IN  IF q < -PitchLimit THEN -PitchLimit ELSE q

\* cameraFront as mouseCallback computes it: the normalized direction of yaw
\* y and pitch p, kept as the pair it is a function of.
FrontOf(y, p) == [computed |-> TRUE, yaw |-> y, pitch |-> p]

\* processInput: one displacement of cameraSpeed per pressed key of W, S, A,
\* D, along cameraFront or along normalize(cross(cameraFront, cameraUp)).
ProcessInput(pos, ks, front) ==
    pos \o (IF GLFW_KEY_W \in ks
            THEN <<[along |-> "front", sign |-> 1, front |-> front]>> ELSE <<>>)
        \o (IF GLFW_KEY_S \in ks
            THEN <<[along |-> "front", sign |-> -1, front |-> front]>> ELSE <<>>)
        \o (IF GLFW_KEY_A \in ks
            THEN <<[along |-> "right", sign |-> -1, front |-> front]>> ELSE <<>>)
        \o (IF GLFW_KEY_D \in ks
            THEN <<[along |-> "right", sign |-> 1, front |-> front]>> ELSE <<>>)

\* The globals of lines 85-99 and mouseCallback's statics as the program
\* starts; no event has been sent.
InitGlobals ==
    /\ cameraPos = <<>>
    /\ cameraFront = [computed |-> FALSE, yaw |-> FLit(-90, 1), pitch |-> 0]
    /\ yaw = FLit(-90, 1)
    /\ pitch = 0
    /\ lastX = FLit(960, 1)
    /\ lastY = FLit(540, 1)
    /\ firstMouse = TRUE
    /\ keys = {}
    /\ roll = 0
    /\ isRMBPressed = FALSE
    /\ shouldClose = FALSE
    /\ cursorEvents = 0
    /\ pressedLast = {}
    /\ unhandled = {}

Init ==
    /\ pc = "start"
    /\ file \in [open : BOOLEAN, header : BOOLEAN,
                 records : SeqUpTo(SampleSet, MaxSamples)]
    /\ points = <<>>
    /\ vertices = <<>>
    /\ indices = <<>>
    /\ cerr = <<>>
    /\ cout = <<>>
    /\ calls = <<>>
    /\ finished = <<>>
    /\ gpu = [filled |-> FALSE, vbo |-> <<>>, ebo |-> <<>>]
    /\ exitCode = "none"
    /\ normalWrites = <<>>
    /\ InitGlobals

\* main, lines 442-467: glfwInit, window, callbacks, GLAD.
MainSetup ==
    /\ pc = "start"
    /\ \E r \in {"ok", "Failed to initialize GLFW",
                 "Failed to create GLFW window", "Failed to initialize GLAD"} :
          IF r = "ok"
          THEN /\ pc' = "load"
               /\ UNCHANGED <<cerr, exitCode>>
          ELSE /\ pc' = "exit"
               /\ cerr' = Append(cerr, r)
               /\ exitCode' = -1
    /\ UNCHANGED <<file, points, vertices, indices, cout, calls, finished, gpu>>
    /\ UNCHANGED <<normalWrites, inputVars>>

LoadTerrainData ==
    /\ pc = "load"
    /\ points' = LoadedPoints(file)
    /\ IF file.open
       THEN /\ cout' = Append(cout, <<"Loaded", Len(LoadedPoints(file))>>)
            /\ UNCHANGED cerr
       ELSE /\ cerr' = Append(cerr, "Failed to open file")
            /\ UNCHANGED cout
    /\ calls' = Append(calls, "loadTerrainData")
    /\ finished' = Append(finished, "loadTerrainData")
    /\ pc' = MainNext("load")
    /\ UNCHANGED <<file, vertices, indices, gpu, exitCode>>
    /\ UNCHANGED <<normalWrites, inputVars>>

\* main, lines 470-474.
MainCheckEmpty ==
    /\ pc = "checkEmpty"
    /\ IF NoTerrainData(points)
       THEN /\ cerr' = Append(cerr, "No terrain data loaded.")
            /\ exitCode' = -1
            /\ pc' = "exit"
       ELSE /\ pc' = MainNext("checkEmpty")
            /\ UNCHANGED <<cerr, exitCode>>
    /\ UNCHANGED <<file, points, vertices, indices, cout, calls, finished, gpu>>
    /\ UNCHANGED <<normalWrites, inputVars>>

NormalizePoints ==
    /\ pc = "normalize"
    /\ points' = NormalizedPoints(points)
    /\ cout' = IF points = <<>> THEN cout
               ELSE Append(cout, <<"Points normalized to range [-1, 1]">>)
    /\ calls' = Append(calls, "normalizePoints")
    /\ finished' = Append(finished, "normalizePoints")
    /\ pc' = MainNext("normalize")
    /\ UNCHANGED <<file, vertices, indices, cerr, gpu, exitCode>>
    /\ UNCHANGED <<normalWrites, inputVars>>

\* triangulateSimplified, lines 215-242: the size check, the vertices, the
\* sorted copy and the candidate loop.
TriangulateCandidates ==
    /\ pc = "triangulate"
    /\ calls' = Append(calls, "triangulateSimplified")
    /\ IF InsufficientPoints(Len(points))
       THEN /\ cerr' = Append(cerr, "Not enough points to create a mesh.")
            /\ cout' = Append(cout, <<"Vertices", Len(vertices), Len(indices)>>)
            /\ finished' = Append(finished, "triangulateSimplified")
            /\ pc' = MainNext("triangulate")
            /\ UNCHANGED <<vertices, indices, normalWrites>>
       ELSE /\ vertices' = BuildVertices(points)
            /\ normalWrites' = BuildWrites(points)
            /\ indices' = indices \o CandidateIndices(points)
            /\ pc' = "filter"
            /\ UNCHANGED <<cerr, cout, finished>>
    /\ UNCHANGED <<file, points, gpu, exitCode, inputVars>>

\* triangulateSimplified, lines 244-272: the edge-length filter; then main's
\* report of the sizes.
TriangulateFilter ==
    /\ pc = "filter"
    /\ indices' = FilterLoop(vertices, indices, 1)
    /\ cout' = cout
                \o [i \in DOMAIN RemovedLoop(vertices, indices, 1) |->
                       <<"Removed triangle", RemovedLoop(vertices, indices, 1)[i]>>]
                \o <<<<"Remaining triangles", Len(indices') \div 3>>,
                     <<"Vertices", Len(vertices), Len(indices')>>>>
    /\ finished' = Append(finished, "triangulateSimplified")
    /\ pc' = MainNext("triangulate")
    /\ UNCHANGED <<file, points, vertices, cerr, calls, gpu, exitCode>>
    /\ UNCHANGED <<normalWrites, inputVars>>

CalculateNormals ==
    /\ pc = "normals"
    /\ vertices' = NormalsOf(vertices, indices)
    /\ calls' = Append(calls, "calculateNormals")
    /\ finished' = Append(finished, "calculateNormals")
    /\ normalWrites' = NormalsWrites(normalWrites, indices)
    /\ pc' = MainNext("normals")
    /\ UNCHANGED <<file, points, indices, cerr, cout, gpu, exitCode, inputVars>>

CreateShaderProgram ==
    /\ pc = "shader"
    /\ calls' = Append(calls, "createShaderProgram")
    /\ finished' = Append(finished, "createShaderProgram")
    /\ pc' = MainNext("shader")
    /\ UNCHANGED <<file, points, vertices, indices, cerr, cout, gpu, exitCode>>
    /\ UNCHANGED <<normalWrites, inputVars>>

\* renderLoop, lines 376-399: the buffers are filled from vertices and
\* indices; the loop is about to test glfwWindowShouldClose.
RenderLoop ==
    /\ pc = "render"
    /\ gpu' = [filled |-> TRUE, vbo |-> vertices, ebo |-> indices]
    /\ calls' = Append(calls, "renderLoop")
    /\ pc' = "frame"
    /\ UNCHANGED <<file, points, vertices, indices, cerr, cout, finished,
                   exitCode, normalWrites, inputVars>>

\* One iteration of the loop up to glfwSwapBuffers: processInput moves the
\* camera, the frame is drawn from the buffers (deltaTime is the clock's).
RenderFrame ==
    /\ pc = "frame"
    /\ ~shouldClose
    /\ Len(ProcessInput(cameraPos, keys, cameraFront)) <= MaxMoves
    /\ cameraPos' = ProcessInput(cameraPos, keys, cameraFront)
    /\ pc' = "poll"
    /\ UNCHANGED <<file, points, vertices, indices, cerr, cout, calls,
                   finished, gpu, exitCode, normalWrites, cameraFront, yaw,
                   pitch, lastX, lastY, firstMouse, keys, roll, isRMBPressed,
                   shouldClose, cursorEvents, pressedLast, unhandled>>

\* What every event handled inside glfwPollEvents leaves alone.
PollFrame ==
    /\ pc = "poll"
    /\ UNCHANGED <<pc, file, points, vertices, indices, cerr, cout, calls,
                   finished, gpu, exitCode, normalWrites, cameraPos>>

\* A key event: keyCallback(window, key, scancode, action, mods).
KeyCallbackOn(key, action) ==
    /\ PollFrame
    /\ IF "key" \in RegisteredCallbacks
       THEN /\ keys' = KeysAfter(keys, key, action)
            /\ UNCHANGED unhandled
       ELSE /\ unhandled' = unhandled \cup {"key"}
            /\ UNCHANGED keys
    /\ pressedLast' = IF action = "PRESS" THEN pressedLast \cup {key}
                      ELSE IF action = "RELEASE" THEN pressedLast \ {key}
                      ELSE pressedLast
    /\ UNCHANGED <<cameraFront, yaw, pitch, lastX, lastY, firstMouse, roll,
                   isRMBPressed, shouldClose, cursorEvents>>

KeyCallback == \E key \in KeyCodes, action \in KeyActions : KeyCallbackOn(key, action)

\* A cursor-move event: mouseCallback(window, xpos, ypos), xpos and ypos
\* doubles, lastX and lastY floats.
MouseCallbackOn(xpos, ypos) ==
    LET lx == IF firstMouse THEN ToFloat(xpos) ELSE lastX
        ly == IF firstMouse THEN ToFloat(ypos) ELSE lastY
        xOffset == FMul(ToFloat(xpos - lx), sensitivity)
        yOffset == FMul(ToFloat(ly - ypos), sensitivity)
    IN  /\ PollFrame
        /\ cursorEvents < MaxCursorEvents
        /\ cursorEvents' = cursorEvents + 1
        /\ IF "cursorPos" \in RegisteredCallbacks
           THEN /\ firstMouse' = FALSE
                /\ lastX' = ToFloat(xpos)
                /\ lastY' = ToFloat(ypos)
                /\ IF isRMBPressed
                   THEN /\ roll' = FAdd(roll, xOffset)
                        /\ UNCHANGED <<yaw, pitch>>
                   ELSE /\ yaw' = FAdd(yaw, xOffset)
                        /\ pitch' = ClampPitch(FAdd(pitch, yOffset))
                        /\ UNCHANGED roll
                /\ cameraFront' = FrontOf(yaw', pitch')
                /\ UNCHANGED unhandled
           ELSE /\ unhandled' = unhandled \cup {"cursorPos"}
                /\ UNCHANGED <<firstMouse, lastX, lastY, roll, yaw, pitch,
                               cameraFront>>
        /\ UNCHANGED <<keys, isRMBPressed, shouldClose, pressedLast>>

MouseCallback == \E pos \in CursorPositions : MouseCallbackOn(pos[1], pos[2])

\* A mouse-button event: mouseButtonCallback(window, button, action, mods)
\* when main registered it, else GLFW drops the event.
MouseButtonEvent ==
    /\ PollFrame
    /\ \E button \in MouseButtons, action \in KeyActions :
          IF "mouseButton" \in RegisteredCallbacks
          THEN /\ isRMBPressed' = RMBAfter(isRMBPressed, button, action)
               /\ UNCHANGED unhandled
          ELSE /\ unhandled' = unhandled \cup {"mouseButton"}
               /\ UNCHANGED isRMBPressed
    /\ UNCHANGED <<cameraFront, yaw, pitch, lastX, lastY, firstMouse, keys,
                   roll, shouldClose, cursorEvents, pressedLast>>

\* The user closes the window: GLFW sets the close flag while polling.
WindowClose ==
    /\ PollFrame
    /\ ~shouldClose
    /\ shouldClose' = TRUE
    /\ UNCHANGED <<cameraFront, yaw, pitch, lastX, lastY, firstMouse, keys,
                   roll, isRMBPressed, cursorEvents, pressedLast, unhandled>>

\* glfwPollEvents returns; the loop tests the close flag again.
PollEventsReturn ==
    /\ pc = "poll"
    /\ pc' = "frame"
    /\ UNCHANGED <<file, points, vertices, indices, cerr, cout, calls,
                   finished, gpu, exitCode, normalWrites, inputVars>>

\* renderLoop, lines 433-437: the window is to close, renderLoop returns.
RenderLoopReturn ==
    /\ pc = "frame"
    /\ shouldClose
    /\ finished' = Append(finished, "renderLoop")
    /\ pc' = MainNext("render")
    /\ UNCHANGED <<file, points, vertices, indices, cerr, cout, calls, gpu,
                   exitCode, normalWrites, inputVars>>

\* glfwTerminate(); return 0;
MainReturn ==
    /\ pc = "terminate"
    /\ exitCode' = 0
    /\ pc' = "exit"
    /\ UNCHANGED <<file, points, vertices, indices, cerr, cout, calls,
                   finished, gpu>>
    /\ UNCHANGED <<normalWrites, inputVars>>

Next ==
    \/ MainSetup
    \/ LoadTerrainData
    \/ MainCheckEmpty
    \/ NormalizePoints
    \/ TriangulateCandidates
    \/ TriangulateFilter
    \/ CalculateNormals
    \/ CreateShaderProgram
    \/ RenderLoop
    \/ RenderFrame
    \/ WindowClose
    \/ PollEventsReturn
    \/ RenderLoopReturn
    \/ MainReturn

\* main with a user who sends no input but the closing of the window.
Spec == Init /\ [][Next]_vars

(***************************************************************************)
(* main with a user at the keyboard and the mouse, on the input feeds of   *)
(* up to MaxSamples records drawn from RunSampleSet (equal samples: every  *)
(* triangle of the mesh survives the filter).                              *)
(***************************************************************************)
RunSampleSet == FloatPoints({<<Units(1), Units(0), Units(0)>>})

InitRun ==
    /\ pc = "start"
    /\ file \in [open : {TRUE}, header : {TRUE},
                 records : SeqUpTo(RunSampleSet, MaxSamples)]
    /\ points = <<>>
    /\ vertices = <<>>
    /\ indices = <<>>
    /\ cerr = <<>>
    /\ cout = <<>>
    /\ calls = <<>>
    /\ finished = <<>>
    /\ gpu = [filled |-> FALSE, vbo |-> <<>>, ebo |-> <<>>]
    /\ exitCode = "none"
    /\ normalWrites = <<>>
    /\ InitGlobals

NextRun ==
    \/ Next
    \/ KeyCallback
    \/ MouseCallback
    \/ MouseButtonEvent

SpecRun == InitRun /\ [][NextRun]_vars

(***************************************************************************)
(* triangulateSimplified and calculateNormals called on their own, on any  *)
(* point sequence of up to MaxPoints points (empty vertices and indices).  *)
(***************************************************************************)
InitMesh ==
    /\ pc = "triangulate"
    /\ file = [open |-> TRUE, header |-> TRUE, records |-> <<>>]
    /\ points \in SeqUpTo(MeshPointSet, MaxPoints)
    /\ vertices = <<>>
    /\ indices = <<>>
    /\ cerr = <<>>
    /\ cout = <<>>
    /\ calls = <<>>
    /\ finished = <<>>
    /\ gpu = [filled |-> FALSE, vbo |-> <<>>, ebo |-> <<>>]
    /\ exitCode = "none"
    /\ normalWrites = <<>>
    /\ InitGlobals

NextMesh ==
    \/ TriangulateCandidates
    \/ TriangulateFilter
    \/ CalculateNormals

SpecMesh == InitMesh /\ [][NextMesh]_vars

(***************************************************************************)
(* Properties                                                              *)
(***************************************************************************)
Range(s) == {s[i] : i \in DOMAIN s}

\* Whether function f has returned to main.
Returned(f) == f \in Range(finished)

\* The n - 2 sequential triples (0,1,2), (1,2,3), ..., flattened.
SequentialTriples(n) ==
    [k \in 1 .. 3 * (n - 2) |-> ((k - 1) \div 3) + ((k - 1) % 3)]

\* Edge (i, j) of the mesh (0-based index values) is strictly below the
\* threshold, measured between the vertex positions.
ShortEdge(i, j) ==
    Distance2(vertices[i + 1].position, vertices[j + 1].position)
        < maxEdgeLength * maxEdgeLength

\* All three edges of the triangle (t, t+1, t+2) are below the threshold.
ShortTriangle(t) ==
    ShortEdge(t, t + 1) /\ ShortEdge(t + 1, t + 2) /\ ShortEdge(t + 2, t)

RECURSIVE ShortTriples(_, _)
\* The triples (t, t+1, t+2), t = t0 .. n-3, that are ShortTriangle, in order.
ShortTriples(t, n) ==
    IF t > n - 3 THEN <<>>
    ELSE (IF ShortTriangle(t) THEN <<t, t + 1, t + 2>> ELSE <<>>)
         \o ShortTriples(t + 1, n)

\* Vertex v (0-based) is referenced by the index sequence.
Referenced(v) == v \in Range(indices)

\* C1: the index sequence always holds whole triples, and every index in it is
\* below the number of vertices (for 0, 1, 2 and more points alike).
C1_IndexValidity ==
    /\ Len(indices) % 3 = 0
    /\ \A i \in DOMAIN indices : indices[i] >= 0 /\ indices[i] < Len(vertices)

\* C1 witness: the triangulator has returned a mesh of at least two triangles.
C1_Witness ==
    /\ Returned("triangulateSimplified")
    /\ Len(indices) >= 6
    /\ Len(vertices) = Len(points)

\* C2: for N >= 3 points the candidate list built before filtering is the N-2
\* sequential triples over the original positions, whatever the sorted copy is.
C2_SequentialCandidates ==
    pc = "filter" =>
        /\ Len(points) >= 3
        /\ indices = SequentialTriples(Len(points))

\* C2 witness: candidates were built for four or more points that the sort
\* reorders.
C2_Witness ==
    /\ pc = "filter"
    /\ Len(points) >= 4
    /\ SortedPoints(points) # points
    /\ Len(indices) = 3 * (Len(points) - 2)

\* C3: the output is, in order, exactly the candidate triangles whose three
\* edges are all strictly below 0.15, and filtering it again removes nothing.
C3_EdgeFilter ==
    (Returned("triangulateSimplified") /\ Len(points) >= 3) =>
        /\ indices = ShortTriples(0, Len(points))
        /\ FilterLoop(vertices, indices, 1) = indices

\* C3 witness: a triangle survived and another, with an edge exactly at the
\* threshold, was discarded.
C3_Witness ==
    /\ Returned("triangulateSimplified")
    /\ indices # <<>>
    /\ \E t \in 0 .. Len(points) - 3 :
          /\ ~ShortTriangle(t)
          /\ Distance2(vertices[t + 1].position, vertices[t + 2].position)
                = maxEdgeLength * maxEdgeLength
          /\ ShortEdge(t + 1, t + 2)
          /\ ShortEdge(t + 2, t)

\* C4: with fewer than 3 points the triangulator leaves vertices and indices
\* empty, reports "Not enough points" and returns to main; the candidate loop
\* is reached only with 3 points or more.
C4_InsufficientPoints ==
    /\ (Returned("triangulateSimplified") /\ Len(points) < 3) =>
          /\ vertices = <<>>
          /\ indices = <<>>
          /\ "Not enough points to create a mesh." \in Range(cerr)
          /\ pc \in {"normals", "shader"}
          /\ exitCode = "none"
    /\ pc = "filter" => Len(points) >= 3

\* C4 witness: the triangulator has returned from a call with exactly 2 points.
C4_Witness ==
    /\ Returned("triangulateSimplified")
    /\ Len(points) = 2
    /\ pc = "normals"

\* All the records of the feed are the same sample.
Coincident(recs) == \A i, j \in DOMAIN recs : recs[i] = recs[j]

\* C5: after normalizePoints every coordinate lies in [-1, 1] and one of them
\* is +1 or -1 exactly; coincident samples all become the zero vector.
C5_NormalizationBound ==
    Returned("normalizePoints") =>
        IF Coincident(file.records)
        THEN \A i \in DOMAIN points : points[i] = <<0, 0, 0>>
        ELSE /\ \A i \in DOMAIN points : \A k \in 1 .. 3 :
                    -One <= points[i][k] /\ points[i][k] <= One
             /\ \E i \in DOMAIN points : \E k \in 1 .. 3 :
                    Abs(points[i][k]) = One

\* C6: after calculateNormals every vertex referenced by a surviving triangle
\* has a normal of magnitude 1.
C6_ReferencedNormalsUnit ==
    Returned("calculateNormals") =>
        \A v \in 0 .. Len(vertices) - 1 :
            Referenced(v) => IsUnitLength(vertices[v + 1].normal)

\* The accumulated (not yet normalized) normal of vertex v (0-based).
Accumulated(v) ==
    AccumulateLoop(ResetNormals(vertices), indices, 1)[v + 1].normal

\* C7: after calculateNormals a vertex that no triangle references, or whose
\* accumulated face normals cancel, has the zero vector as its normal, never
\* NaN.
C7_ZeroAccumulatorStaysZero ==
    Returned("calculateNormals") =>
        \A v \in 0 .. Len(vertices) - 1 :
            (~Referenced(v) \/ IsZeroVector(Accumulated(v)))
                => /\ IsZeroVector(vertices[v + 1].normal)
                   /\ ~IsNaN(vertices[v + 1].normal)

\* The pipeline stages of main.
PipelineStages ==
    {"normalizePoints", "triangulateSimplified", "calculateNormals", "renderLoop"}

\* C8 as stated: an empty loaded point set goes through normalization and the
\* run ends with an empty mesh and a warning, not with a failure.
C8_EmptyInputSoftResult ==
    (pc = "exit" /\ Returned("loadTerrainData") /\ points = <<>>) =>
        /\ Returned("normalizePoints")
        /\ exitCode = 0

\* C8 amended: when the loaded point set is empty, main reports "No terrain
\* data loaded." and returns -1 without calling normalizePoints or any later
\* stage; no mesh is built.
C8_EmptyInputHardFailure ==
    (Returned("loadTerrainData") /\ points = <<>> /\ pc # "checkEmpty") =>
        /\ pc = "exit"
        /\ exitCode = -1
        /\ cerr # <<>> /\ cerr[Len(cerr)] = "No terrain data loaded."
        /\ calls = <<"loadTerrainData">>
        /\ vertices = <<>> /\ indices = <<>> /\ ~gpu.filled

\* C8 witness: the file opened, no record was read, and main has returned.
C8_Witness ==
    /\ file.open
    /\ Returned("loadTerrainData")
    /\ points = <<>>
    /\ pc = "exit"

\* C9: when the file cannot be opened the loader returns no sample, main
\* returns -1, and no pipeline stage is ever called.
C9_OpenFailurePropagates ==
    (~file.open /\ Returned("loadTerrainData")) =>
        /\ points = <<>>
        /\ "Failed to open file" \in Range(cerr)
        /\ Range(calls) \cap PipelineStages = {}
        /\ pc \in {"checkEmpty", "exit"}
        /\ pc = "exit" => exitCode = -1

\* C9 witness: a file with records in it failed to open and main has returned.
C9_Witness ==
    /\ ~file.open
    /\ file.header
    /\ file.records # <<>>
    /\ Returned("loadTerrainData")
    /\ pc = "exit"

\* The order in which main calls its functions.
CallOrder ==
    <<"loadTerrainData", "normalizePoints", "triangulateSimplified",
      "calculateNormals", "createShaderProgram", "renderLoop">>

IsPrefix(s, t) == Len(s) <= Len(t) /\ \A i \in DOMAIN s : s[i] = t[i]

\* C10: the stages run in the order normalizePoints, triangulateSimplified,
\* calculateNormals, each once, each returning before the next is called, and
\* renderLoop gets the mesh only after calculateNormals has returned.
C10_StageOrder ==
    /\ IsPrefix(calls, CallOrder)
    /\ IsPrefix(finished, calls)
    /\ Len(calls) - Len(finished) <= 1
    /\ Len(calls) > Len(finished) => pc \in {"filter", "frame", "poll"}
    /\ gpu.filled =>
          /\ Returned("calculateNormals")
          /\ gpu.vbo = vertices /\ gpu.ebo = indices
    /\ (pc = "exit" /\ "normalizePoints" \in Range(calls)) =>
          /\ finished = CallOrder
          /\ exitCode = 0

\* C10 witness: a run of at least 3 points went through every stage.
C10_Witness ==
    /\ pc = "exit"
    /\ exitCode = 0
    /\ Len(points) >= 3
    /\ gpu.filled
    /\ finished = CallOrder


\* C11: when triangulateSimplified has returned for N >= 3 points, vertices
\* has exactly N entries, vertex i holds point i of the original (unsorted)
\* order and every normal is the zero vector, whatever the filter kept.
C11_VerticesMirrorPoints ==
    (pc = "normals" /\ Returned("triangulateSimplified") /\ Len(points) >= 3) =>
        /\ Len(vertices) = Len(points)
        /\ \A i \in DOMAIN vertices :
              /\ vertices[i].position = points[i]
              /\ vertices[i].normal = ZeroVec

\* C11 witness: the filter removed every triangle of at least 3 points that
\* are not in sorted order, and the vertices are all there.
C11_Witness ==
    /\ pc = "normals"
    /\ Returned("triangulateSimplified")
    /\ Len(points) >= 3
    /\ SortedPoints(points) # points
    /\ indices = <<>>
    /\ Len(vertices) = Len(points)


\* The positions of a vertex sequence.
Positions(verts) == [i \in DOMAIN verts |-> verts[i].position]

\* The step of calculateNormals leaves the vertex positions, the vertex count
\* and the index sequence as they are, and no step after its return changes
\* the vertex or the index sequence.
NormalsFrame ==
    /\ pc = "normals" =>
          /\ Len(vertices') = Len(vertices)
          /\ Positions(vertices') = Positions(vertices)
          /\ indices' = indices
    /\ Returned("calculateNormals") =>
          /\ vertices' = vertices
          /\ indices' = indices

\* C12 as stated: once calculateNormals has returned, the normal of every
\* vertex has been assigned exactly once, by calculateNormals.
C12_WrittenOnceByEstimator ==
    Returned("calculateNormals") =>
        \A i \in DOMAIN vertices : normalWrites[i] = <<"calculateNormals">>

\* C12: the normal of every vertex is assigned once by triangulateSimplified
\* (to zero) and after that only by calculateNormals, in its one call: the
\* reset, one += per triangle corner that refers to the vertex, the final
\* normalization.  calculateNormals leaves positions, vertex count and
\* indices alone, and after its return neither the render loop nor a callback
\* changes the vertex or the index sequence.
C12_NormalWriters ==
    /\ [](/\ DOMAIN normalWrites = DOMAIN vertices
          /\ \A i \in DOMAIN vertices :
                normalWrites[i] =
                    <<"triangulateSimplified">>
                    \o (IF Returned("calculateNormals")
                        THEN [k \in 1 .. 2 + Occurrences(indices, i - 1) |->
                                 "calculateNormals"]
                        ELSE <<>>))
    /\ [][NormalsFrame]_vars

\* C12 witness: a mesh with a triangle is on screen, calculateNormals wrote
\* its normals, and the user has pressed a key and moved the cursor.
C12_Witness ==
    /\ pc = "poll"
    /\ Returned("calculateNormals")
    /\ Len(vertices) >= 3
    /\ indices # <<>>
    /\ Len(normalWrites[1]) >= 4
    /\ keys # {}
    /\ cursorEvents > 0


\* The indices of the keys table.
KeyIndices == 0 .. KeyTableSize - 1

\* A key event outside the table or with an action other than PRESS and
\* RELEASE leaves the table as it is, and an event for key k leaves every
\* other entry as it is.
KeyEventFrame ==
    \A key \in KeyCodes, action \in KeyActions :
        KeyCallbackOn(key, action) =>
            /\ (key \notin KeyIndices \/ action \notin {"PRESS", "RELEASE"}) =>
                  keys' = keys
            /\ keys' \ {key} = keys \ {key}

\* C13: keys[k], 0 <= k < 1024, is true exactly when the latest PRESS or
\* RELEASE event for k was a PRESS (false when there was none); an event with
\* a key outside the table or with another action (REPEAT) leaves the table
\* unchanged, and an event for key k changes no keys[j], j # k.
C13_KeyTable ==
    /\ [](keys = pressedLast \cap KeyIndices)
    /\ [][KeyEventFrame]_vars

\* C13 witness: W is held down and has moved the camera, and the keys -1 and
\* 1024 were pressed without a trace in the table.
C13_Witness ==
    /\ keys = {GLFW_KEY_W}
    /\ pressedLast = {-1, GLFW_KEY_W, KeyTableSize}
    /\ cameraPos # <<>>


\* C14: pitch stays within [-89, 89] degrees; and the first cursor-move event
\* (firstMouse true) has zero offsets: it leaves yaw and pitch at their
\* initial values -90 and 0 and clears firstMouse.
C14_PitchClampAndFirstMouse ==
    /\ -Units(89) <= pitch /\ pitch <= Units(89)
    /\ firstMouse <=> cursorEvents = 0
    /\ cursorEvents = 1 =>
          /\ yaw = FLit(-90, 1)
          /\ pitch = 0


\* A mouse-button event reaches no callback, and a cursor-move event finds
\* isRMBPressed false and leaves roll as it is (the yaw/pitch branch).
ButtonEventFrame ==
    /\ MouseButtonEvent => isRMBPressed' = isRMBPressed
    /\ \A pos \in CursorPositions :
          MouseCallbackOn(pos[1], pos[2]) => (~isRMBPressed /\ roll' = roll)

\* C15: main registers the cursor-position and key callbacks only, so
\* mouseButtonCallback is never invoked: isRMBPressed is false and roll is 0
\* in every reachable state, and every cursor-move event takes the yaw/pitch
\* branch of mouseCallback.
C15_RollBranchUnreachable ==
    /\ []("mouseButton" \notin RegisteredCallbacks /\ ~isRMBPressed /\ roll = 0)
    /\ [][ButtonEventFrame]_vars

\* C15 witness: the user has pressed a mouse button and moved the cursor, and
\* the movement went into the pitch.
C15_Witness ==
    /\ "mouseButton" \in unhandled
    /\ cursorEvents > 0
    /\ pitch # 0
    /\ roll = 0

=============================================================================
